---- MODULE Spec2Model ----
(***************************************************************************)
(* The consistency-training script src/main.py as a state machine: the     *)
(* EMA tracker (class EMA), the per-epoch step count N and boundary        *)
(* sequence, and the epoch / batch / sample / save loop of train().        *)
(*                                                                         *)
(* Real-valued quantities (parameters, mu, noise levels) are fixed-point   *)
(* integers in units of 1/Scale.  Arithmetic on them is the code's real    *)
(* arithmetic, rounded once to that grid; machine rounding of float32 and  *)
(* float64 is not modelled.                                                *)
(***************************************************************************)
EXTENDS Integers, Sequences, FiniteSets, TLC

\* ------------------------------------------------------------------ bounds
MaxEpochs == 4
MaxBatches == 2
MaxSampleEvery == 2
NumParams == 2
MaxN == 6

\* ------------------------------------------------------------- fixed point
Scale == 10^4
RootScale == 10^3
Unset == 0 - 1

\* a / b rounded to the nearest integer (b > 0)
RoundDiv(a, b) == (2 * a + b) \div (2 * b)

Min(a, b) == IF a <= b THEN a ELSE b

Iota(n) == [i \in 1..n |-> i]

\* ------------------------------------------------------------ math library
\* math.log(0.95) = -0.0512933 on the grid
Log095 == -513

\* the terms y^k/k! of exp(y) from the k-th on, given the (k-1)-th
RECURSIVE ExpSeries(_, _, _)
ExpSeries(y, term, k) ==
    LET next == RoundDiv(term * y, Scale * k)
    IN  IF next = 0 THEN 0 ELSE next + ExpSeries(y, next, k + 1)

\* math.exp(y)
Exp(y) == Scale + ExpSeries(y, Scale, 1)

\* the least k in lo+1..hi with k * k >= v, given lo * lo < v <= hi * hi
RECURSIVE SqrtBisect(_, _, _)
SqrtBisect(lo, hi, v) ==
    IF hi - lo <= 1 THEN hi
    ELSE LET mid == (lo + hi) \div 2
         IN  IF mid * mid >= v THEN SqrtBisect(lo, mid, v)
             ELSE SqrtBisect(mid, hi, v)

\* math.ceil(math.sqrt(num / den)), 0 < den, 0 < num <= den * 2^30
CeilSqrt(num, den) == SqrtBisect(0, 2^15, 0 - ((0 - num) \div den))

\* ------------------------------------------------------------------- state
VARIABLES
    n_epochs,              \* config.n_epochs
    n_batches,             \* len(dataloader)
    sample_every_n_epoch,  \* config.sample_every_n_epoch
    wandb,                 \* config.wandb
    pc,                    \* position in train()
    epoch,                 \* loop variable of the epoch loop, 0 before it
    batch,                 \* batches of this epoch fetched from the dataloader
    N,                     \* step count of this epoch, 0 before the loop
    boundaries,            \* boundary sequence of this epoch
    t, t_0, t_1,           \* one entry of the index tensor and its lookups
    params,                \* parameter storage: address -> value
    ema_params,            \* addresses of ema.ema_model.parameters()
    training,              \* model.training
    grads_ready,           \* gradients of the live parameters populated
    total_steps,           \* scheduler.total_steps, 0 before construction
    sched_steps,           \* scheduler.step() calls
    optim_steps,           \* optim.step() calls
    loss_calls,            \* model.loss() calls
    backward_calls,        \* loss.backward() calls
    ema_updates,           \* ema.update() calls
    ema_arg,               \* argument of the last ema.update() call
    teacher,               \* ema_model argument of the last model.loss() call
    sample5, sample2,      \* epochs whose 5-step / 2-step grid was written
    weight_file,           \* content of ./ct_{dataset}.pth, <<>> if absent
    saves,                 \* torch.save() calls
    artifacts              \* epochs whose weight file was logged as an artifact

vars == <<n_epochs, n_batches, sample_every_n_epoch, pc, epoch, batch, N,
          boundaries, t, t_0, t_1, params, ema_params, training, grads_ready,
          total_steps, sched_steps, optim_steps, loss_calls, backward_calls,
          ema_updates, ema_arg, teacher, sample5, sample2, weight_file, saves,
          wandb, artifacts>>

config == <<n_epochs, n_batches, sample_every_n_epoch, wandb>>
locals == <<t, t_0, t_1>>
schedule == <<N, boundaries>>
counters == <<sched_steps, optim_steps, loss_calls, backward_calls,
              ema_updates, ema_arg, teacher>>
files == <<sample5, sample2, weight_file, saves, artifacts>>

\* -------------------------------------------------------------- parameters
Addrs == 1..(2 * NumParams)

\* model.parameters(): the live parameter tensors, in order
model_params == Iota(NumParams)

\* mutant: the tracker keeps the model itself instead of a copy
shallowcopy(addrs) == addrs

\* deepcopy(model): fresh storage for every parameter
deepcopy(addrs) == [i \in DOMAIN addrs |-> addrs[i] + NumParams]

ValuesAt(heap, addrs) == [i \in DOMAIN addrs |-> heap[addrs[i]]]

Live == ValuesAt(params, model_params)
Shadow == ValuesAt(params, ema_params)

\* heap with the tensors at addrs overwritten by vals, in order
RECURSIVE Store(_, _, _, _)
Store(heap, addrs, vals, i) ==
    IF i > Len(addrs) THEN heap
    ELSE Store([heap EXCEPT ![addrs[i]] = vals[i]], addrs, vals, i + 1)

\* ---------------------------------------------------------------- class EMA
\* mutant: the factor 2 of the exponent is lost
MuNoSquare(n) == Exp(RoundDiv(Log095, n))

\* mu = math.exp(2 * math.log(0.95) / N)
Mu(n) == Exp(RoundDiv(2 * Log095, n))

\* mutant: the shadow value is not scaled by mu before the add
BlendNoDecay(mu, ema_p, p) == RoundDiv(Scale * ema_p + (Scale - mu) * p, Scale)

\* ema_p.mul_(mu).add_(p, alpha=1 - mu)
Blend(mu, ema_p, p) == RoundDiv(mu * ema_p + (Scale - mu) * p, Scale)

\* for p, ema_p in zip(self.model.parameters(), self.ema_model.parameters())
RECURSIVE ZipBlend(_, _, _)
ZipBlend(heap, mu, i) ==
    IF i > Min(Len(model_params), Len(ema_params)) THEN heap
    ELSE ZipBlend([heap EXCEPT ![ema_params[i]] =
                       Blend(mu, heap[ema_params[i]], heap[model_params[i]])],
                  mu, i + 1)

\* EMA.update(N): the parameter storage after the call
update(n) == ZipBlend(params, Mu(n), 1)

\* ------------------------------------------------------- boundary scheduler
\* mutant: the final + 1 is lost
StepCountNoPlusOne(e, total) == CeilSqrt(e * (150^2 - 4) + 4 * total, total) - 1

\* N = math.ceil(math.sqrt((epoch * (150**2 - 4) / n_epochs) + 4) - 1) + 1
StepCount(e, total) == (CeilSqrt(e * (150^2 - 4) + 4 * total, total) - 1) + 1

\* x ** rho, x in units of 1/RootScale, result in units of 1/Scale
RECURSIVE PowRho(_, _)
PowRho(x, rho) ==
    IF rho = 1 THEN x * (Scale \div RootScale)
    ELSE RoundDiv(PowRho(x, rho - 1) * x, RootScale)

RECURSIVE Bisect(_, _, _, _)
Bisect(lo, hi, v, rho) ==
    IF hi - lo <= 1 THEN lo
    ELSE LET mid == (lo + hi) \div 2
         IN  IF PowRho(mid, rho) <= v THEN Bisect(mid, hi, v, rho)
             ELSE Bisect(lo, mid, v, rho)

\* v ** (1 / rho) in units of 1/RootScale, for 0 <= v < 2 ** rho
RootRho(v, rho) == Bisect(0, 2 * RootScale, v, rho)

\* kerras_boundaries(rho, eps, N, T): N values from eps to T
kerras_boundaries(rho, eps, n, T) ==
    LET a == RootRho(eps, rho)
        b == RootRho(T, rho)
    IN  [i \in 1..n |-> PowRho(a + RoundDiv((i - 1) * (b - a), n - 1), rho)]

\* boundaries[i] for a 0-based index i; Unset stands for the IndexError
Index(b, i) == IF 0 <= i /\ i < Len(b) THEN b[i + 1] ELSE Unset

\* mutant: the upper end of the index range is N instead of N - 1
SampleRangeInclusive(n) == 0..(n - 1)

\* torch.randint(0, N - 1, ...): the values an index can take
SampleRange(n) == 0..(n - 2)

\* ------------------------------------------------------------------ train()
\* mutant: the epoch range includes n_epochs
InRangeInclusive(e) == 1 <= e /\ e <= n_epochs

\* range(1, config.n_epochs)
InRange(e) == 1 <= e /\ e < n_epochs

\* the parameters torch.optim.AdamW(model.parameters()) steps
OptimTargets == model_params

\* the values an optimizer step can leave in the live parameters
OptimOutcomes ==
    { [i \in 1..NumParams |-> IF i % 2 = 1 THEN Scale ELSE 0],
      [i \in 1..NumParams |-> IF i % 2 = 1 THEN 0 ELSE Scale] }

\* the argument of ema.update(...) in the batch loop
EmaArg == N

\* mutant: the EMA model is saved instead of the live one
SavedStateEma == ValuesAt(params, ema_params)

\* model.state_dict() as handed to torch.save
SavedState == Live

\* mutant: the EMA update runs before the optimizer and scheduler steps
StepAfterEmaFirst(p) ==
    CASE p = "loss" -> "backward"
      [] p = "backward" -> "ema"
      [] p = "ema" -> "optim"
      [] p = "optim" -> "sched"
      [] p = "sched" -> "batch_start"
      [] p = "eval" -> "sample5"
      [] p = "sample5" -> "sample2"
      [] p = "sample2" -> "save"
      [] p = "save" -> IF wandb THEN "artifact" ELSE "epoch_start"
      [] p = "artifact" -> "epoch_start"

\* mutant: the weights are saved before the grids are sampled
StepAfterSaveFirst(p) ==
    CASE p = "loss" -> "backward"
      [] p = "backward" -> "optim"
      [] p = "optim" -> "sched"
      [] p = "sched" -> "ema"
      [] p = "ema" -> "batch_start"
      [] p = "eval" -> "save"
      [] p = "save" -> "sample5"
      [] p = "sample5" -> "sample2"
      [] p = "sample2" -> IF wandb THEN "artifact" ELSE "epoch_start"
      [] p = "artifact" -> "epoch_start"

\* the statement order of one batch step and of the epoch end
StepAfter(p) ==
    CASE p = "loss" -> "backward"
      [] p = "backward" -> "optim"
      [] p = "optim" -> "sched"
      [] p = "sched" -> "ema"
      [] p = "ema" -> "batch_start"
      [] p = "eval" -> "sample5"
      [] p = "sample5" -> "sample2"
      [] p = "sample2" -> "save"
      [] p = "save" -> IF wandb THEN "artifact" ELSE "epoch_start"
      [] p = "artifact" -> "epoch_start"

Init ==
    /\ n_epochs \in 0..MaxEpochs
    /\ n_batches \in 0..MaxBatches
    /\ sample_every_n_epoch \in 1..MaxSampleEvery
    /\ wandb \in BOOLEAN
    /\ pc = "setup"
    /\ epoch = 0
    /\ batch = 0
    /\ N = 0
    /\ boundaries = <<>>
    /\ t = Unset /\ t_0 = Unset /\ t_1 = Unset
    /\ \E v \in OptimOutcomes :
           params = Store([a \in Addrs |-> 0], model_params, v, 1)
    /\ ema_params = <<>>
    /\ training = TRUE
    /\ grads_ready = FALSE
    /\ total_steps = 0
    /\ sched_steps = 0 /\ optim_steps = 0 /\ loss_calls = 0
    /\ backward_calls = 0 /\ ema_updates = 0 /\ ema_arg = 0
    /\ teacher = <<>>
    /\ sample5 = <<>> /\ sample2 = <<>>
    /\ weight_file = <<>>
    /\ saves = 0
    /\ artifacts = <<>>

\* model, optimizer, OneCycleLR(steps_per_epoch=len(dataloader),
\* epochs=n_epochs) and EMA(model); OneCycleLR rejects a non-positive count
Setup ==
    /\ pc = "setup"
    /\ IF n_epochs <= 0 \/ n_batches <= 0
       THEN /\ pc' = "failed"
            /\ UNCHANGED <<total_steps, ema_params, params>>
       ELSE /\ total_steps' = n_batches * n_epochs
            /\ ema_params' = deepcopy(model_params)
            /\ params' = Store(params, deepcopy(model_params), Live, 1)
            /\ pc' = "epoch_start"
    /\ UNCHANGED <<config, epoch, batch, schedule, locals, training,
                   grads_ready, counters, files>>

\* for epoch in range(1, n_epochs): N, boundaries, model.train()
EpochStart ==
    /\ pc = "epoch_start"
    /\ InRange(epoch + 1)
    /\ epoch' = epoch + 1
    /\ N' = StepCount(epoch + 1, n_epochs)
    /\ boundaries' = kerras_boundaries(7, (2 * Scale) \div 1000,
                                       StepCount(epoch + 1, n_epochs), 80 * Scale)
    /\ batch' = 0
    /\ training' = TRUE
    /\ pc' = "batch_start"
    /\ UNCHANGED <<config, locals, params, ema_params, grads_ready,
                   total_steps, counters, files>>

\* the epoch range is exhausted: train() returns
Finish ==
    /\ pc = "epoch_start"
    /\ ~InRange(epoch + 1)
    /\ pc' = "done"
    /\ UNCHANGED <<config, epoch, batch, schedule, locals, params, ema_params,
                   training, grads_ready, total_steps, counters, files>>

\* for x, _ in pbar: optim.zero_grad(), t = randint, t_0, t_1
BatchStart ==
    /\ pc = "batch_start"
    /\ batch < n_batches
    /\ batch' = batch + 1
    /\ grads_ready' = FALSE
    /\ \E idx \in SampleRange(N) :
          LET lo == Index(boundaries, idx)
              hi == Index(boundaries, idx + 1)
          IN  /\ t' = idx
              /\ t_0' = lo
              /\ t_1' = hi
              /\ pc' = IF lo = Unset \/ hi = Unset THEN "failed" ELSE "loss"
    /\ UNCHANGED <<config, epoch, schedule, params, ema_params, training,
                   total_steps, counters, files>>

\* the dataloader is exhausted: leave the batch loop
BatchesDone ==
    /\ pc = "batch_start"
    /\ batch >= n_batches
    /\ pc' = "eval"
    /\ UNCHANGED <<config, epoch, batch, schedule, locals, params, ema_params,
                   training, grads_ready, total_steps, counters, files>>

\* loss = model.loss(x, z, t_0, t_1, ema_model=ema.ema_model); t, t_0 and
\* t_1 are not read again before they are rebound
Loss ==
    /\ pc = "loss"
    /\ loss_calls' = loss_calls + 1
    /\ teacher' = ema_params
    /\ t' = Unset /\ t_0' = Unset /\ t_1' = Unset
    /\ pc' = StepAfter("loss")
    /\ UNCHANGED <<config, epoch, batch, schedule, params, ema_params,
                   training, grads_ready, total_steps, sched_steps,
                   optim_steps, backward_calls, ema_updates, ema_arg, files>>

\* loss.backward()
Backward ==
    /\ pc = "backward"
    /\ backward_calls' = backward_calls + 1
    /\ grads_ready' = TRUE
    /\ pc' = StepAfter("backward")
    /\ UNCHANGED <<config, epoch, batch, schedule, locals, params, ema_params,
                   training, total_steps, sched_steps, optim_steps, loss_calls,
                   ema_updates, ema_arg, teacher, files>>

\* optim.step()
OptimStep ==
    /\ pc = "optim"
    /\ \E new \in OptimOutcomes : params' = Store(params, OptimTargets, new, 1)
    /\ optim_steps' = optim_steps + 1
    /\ pc' = StepAfter("optim")
    /\ UNCHANGED <<config, epoch, batch, schedule, locals, ema_params,
                   training, grads_ready, total_steps, sched_steps, loss_calls,
                   backward_calls, ema_updates, ema_arg, teacher, files>>

\* scheduler.step()
SchedStep ==
    /\ pc = "sched"
    /\ sched_steps' = sched_steps + 1
    /\ pc' = StepAfter("sched")
    /\ UNCHANGED <<config, epoch, batch, schedule, locals, params, ema_params,
                   training, grads_ready, total_steps, optim_steps, loss_calls,
                   backward_calls, ema_updates, ema_arg, teacher, files>>

\* ema.update(N), then the logging that ends the batch step
EmaStep ==
    /\ pc = "ema"
    /\ params' = update(EmaArg)
    /\ ema_arg' = EmaArg
    /\ ema_updates' = ema_updates + 1
    /\ pc' = StepAfter("ema")
    /\ UNCHANGED <<config, epoch, batch, schedule, locals, ema_params,
                   training, grads_ready, total_steps, sched_steps,
                   optim_steps, loss_calls, backward_calls, teacher, files>>

\* model.eval()
EvalMode ==
    /\ pc = "eval"
    /\ training' = FALSE
    /\ pc' = StepAfter("eval")
    /\ UNCHANGED <<config, epoch, batch, schedule, locals, params, ema_params,
                   grads_ready, total_steps, counters, files>>

\* model.sample(..., [80, 40, 20, 10, 5]) and save_image(..._5step_{epoch})
Sample5 ==
    /\ pc = "sample5"
    /\ sample5' = Append(sample5, epoch)
    /\ pc' = StepAfter("sample5")
    /\ UNCHANGED <<config, epoch, batch, schedule, locals, params, ema_params,
                   training, grads_ready, total_steps, counters, sample2,
                   weight_file, saves, artifacts>>

\* model.sample(..., [80, 2]) and save_image(..._2step_{epoch})
Sample2 ==
    /\ pc = "sample2"
    /\ sample2' = Append(sample2, epoch)
    /\ pc' = StepAfter("sample2")
    /\ UNCHANGED <<config, epoch, batch, schedule, locals, params, ema_params,
                   training, grads_ready, total_steps, counters, sample5,
                   weight_file, saves, artifacts>>

\* torch.save(model.state_dict(), ./ct_{dataset}.pth), taken as one write
Save ==
    /\ pc = "save"
    /\ weight_file' = SavedState
    /\ saves' = saves + 1
    /\ pc' = StepAfter("save")
    /\ UNCHANGED <<config, epoch, batch, schedule, locals, params, ema_params,
                   training, grads_ready, total_steps, counters, sample5,
                   sample2, artifacts>>

\* if config.wandb: wandb.Artifact(..., metadata={"epoch": epoch}),
\* at.add_file(./ct_{dataset}.pth), wandb.log_artifact(at)
LogArtifact ==
    /\ pc = "artifact"
    /\ artifacts' = Append(artifacts, epoch)
    /\ pc' = StepAfter("artifact")
    /\ UNCHANGED <<config, epoch, batch, schedule, locals, params, ema_params,
                   training, grads_ready, total_steps, counters, sample5,
                   sample2, weight_file, saves>>

\* an exception of the data pipeline, the model or the I/O: nothing catches
\* it, the run ends where it stands
Fail ==
    /\ pc \notin {"done", "failed"}
    /\ pc' = "failed"
    /\ t' = Unset /\ t_0' = Unset /\ t_1' = Unset
    /\ UNCHANGED <<config, epoch, batch, schedule, params, ema_params,
                   training, grads_ready, total_steps, counters, files>>

\* the statements inside one epoch
InEpoch ==
    \/ BatchStart
    \/ BatchesDone
    \/ Loss
    \/ Backward
    \/ OptimStep
    \/ SchedStep
    \/ EmaStep
    \/ EvalMode
    \/ Sample5
    \/ Sample2
    \/ Save
    \/ LogArtifact

Step == Setup \/ EpochStart \/ Finish \/ InEpoch

Next == Step \/ Fail

Spec == Init /\ [][Next]_vars

\* ------------------------------------------------- EMA.update on its own
\* whole-number parameter values: their blend is exact on the grid
WholeValues == {0 - Scale, 0, Scale}

\* the arguments update is called with: small ones and those of the loop
UpdateArgs ==
    (1..MaxN) \cup { StepCount(e, total) : e \in 1..MaxEpochs, total \in 2..(MaxEpochs + 1) }

InitEMA ==
    /\ n_epochs = 0 /\ n_batches = 0 /\ sample_every_n_epoch = 1
    /\ wandb = FALSE
    /\ pc = "call"
    /\ epoch = 0 /\ batch = 0
    /\ N \in UpdateArgs
    /\ boundaries = <<>>
    /\ t = Unset /\ t_0 = Unset /\ t_1 = Unset
    /\ ema_params = deepcopy(model_params)
    /\ \E live \in [1..NumParams -> WholeValues] :
       \E shadow \in [1..NumParams -> WholeValues] :
           params = Store(Store([a \in Addrs |-> 0], model_params, live, 1),
                          deepcopy(model_params), shadow, 1)
    /\ training = TRUE
    /\ grads_ready = FALSE
    /\ total_steps = 0
    /\ sched_steps = 0 /\ optim_steps = 0 /\ loss_calls = 0
    /\ backward_calls = 0 /\ ema_updates = 0 /\ ema_arg = 0
    /\ teacher = <<>>
    /\ sample5 = <<>> /\ sample2 = <<>>
    /\ weight_file = <<>>
    /\ saves = 0
    /\ artifacts = <<>>

\* one call ema.update(N)
CallUpdate ==
    /\ pc = "call"
    /\ params' = update(N)
    /\ ema_arg' = N
    /\ ema_updates' = ema_updates + 1
    /\ pc' = "returned"
    /\ UNCHANGED <<config, epoch, batch, schedule, locals, ema_params,
                   training, grads_ready, total_steps, sched_steps,
                   optim_steps, loss_calls, backward_calls, teacher, files>>

NextEMA == CallUpdate

SpecEMA == InitEMA /\ [][NextEMA]_vars

\* ================================================================== claims
Max(a, b) == IF a >= b THEN a ELSE b
Abs(a) == IF a >= 0 THEN a ELSE 0 - a

\* m ** n on the grid
RECURSIVE PowFix(_, _)
PowFix(m, n) ==
    IF n = 0 THEN Scale
    ELSE IF n % 2 = 1 THEN RoundDiv(PowFix(m, n - 1) * m, Scale)
    ELSE LET half == PowFix(m, n \div 2) IN RoundDiv(half * half, Scale)

InBatch == pc \in {"batch_start", "loss", "backward", "optim", "sched", "ema"}
AtEpochEnd == pc \in {"eval", "sample5", "sample2", "save"}

\* C1: whenever an epoch starts, the step count N computed for it is the
\* least integer whose square is at least epoch*(150^2-4)/n_epochs + 4 (that
\* is, ceil(sqrt(..) - 1) + 1), it is at least 2, and it is not below the N
\* of the epoch before.
C1_StepCountGrows ==
    [][epoch' # epoch =>
          /\ N' >= 2
          /\ N' >= N
          /\ N' * N' * n_epochs >= epoch' * (150 * 150 - 4) + 4 * n_epochs
          /\ (N' - 1) * (N' - 1) * n_epochs < epoch' * (150 * 150 - 4) + 4 * n_epochs
      ]_vars

C1_Witness ==
    /\ pc = "batch_start" /\ batch = 0
    /\ epoch = 3 /\ n_epochs = 4
    /\ N > StepCount(2, 4) /\ StepCount(2, 4) > StepCount(1, 4)

\* C2: the epoch variable only ever steps from e to e+1, starting at 1, each
\* epoch beginning once the one before is complete; it never reaches
\* n_epochs; when train() returns epochs 1..n_epochs-1 have each run once;
\* with n_epochs <= 1 nothing runs at all; and the run never gets stuck
\* short of its end.
C2_State ==
    /\ epoch >= 0 /\ epoch <= Max(n_epochs - 1, 0)
    /\ saves <= epoch /\ epoch <= saves + 1
    /\ pc = "done" =>
          /\ epoch = Max(n_epochs - 1, 0)
          /\ saves = epoch
          /\ sample5 = Iota(epoch) /\ sample2 = Iota(epoch)
          /\ ema_updates = epoch * n_batches
    /\ n_epochs <= 1 =>
          /\ epoch = 0
          /\ loss_calls = 0 /\ backward_calls = 0 /\ optim_steps = 0
          /\ sched_steps = 0 /\ ema_updates = 0
          /\ sample5 = <<>> /\ sample2 = <<>>
          /\ weight_file = <<>> /\ saves = 0
    /\ \/ pc \in {"done", "failed"}
       \/ pc = "epoch_start" /\ (InRange(epoch + 1) \/ ENABLED Finish)
       \/ ENABLED (Setup \/ InEpoch)

C2_EpochLoop ==
    /\ []C2_State
    /\ [][epoch' # epoch =>
             /\ epoch' = epoch + 1
             /\ saves = epoch
             /\ batch' = 0
             /\ pc' = "batch_start"
         ]_vars

C2_Witness ==
    /\ pc = "done" /\ n_epochs = 4 /\ n_batches = 2
    /\ sample5 = <<1, 2, 3>> /\ saves = 3 /\ ema_updates = 6

\* C3: once the EMA tracker exists, the shadow parameters change only in
\* the step that calls EMA.update, and they live in storage of their own,
\* which no live parameter shares.
C3_Separate ==
    \A i \in DOMAIN ema_params : \A j \in DOMAIN model_params :
        ema_params[i] # model_params[j]

C3_ShadowFrame ==
    /\ []C3_Separate
    /\ [][(pc # "setup" /\ Shadow' # Shadow) =>
             /\ pc = "ema"
             /\ ema_updates' = ema_updates + 1
             /\ Live' = Live
         ]_vars

C3_Witness ==
    /\ pc = "sched" /\ epoch = 2
    /\ Live # Shadow
    /\ Live # weight_file
    /\ ema_updates >= 1

\* C4: a call EMA.update(N) leaves the live parameters alone and sets the
\* shadow parameter at every position i to mu*shadow[i] + (1-mu)*live[i],
\* where mu is the N-th root of 0.95^2 (to the last digit of the grid); for
\* N = 1 that is mu = 0.9025, and shadow 0 with live 1 becomes 0.0975.
C4_UpdateFormula ==
    [][pc = "call" =>
          LET m == Mu(N)
          IN  /\ PowFix(m - 1, N) < 95 * 95
              /\ PowFix(m + 1, N) > 95 * 95
              /\ N = 1 => m = 9025
              /\ Live' = Live
              /\ \A i \in 1..NumParams :
                    /\ Shadow'[i] * Scale = m * Shadow[i] + (Scale - m) * Live[i]
                    /\ (N = 1 /\ Shadow[i] = 0 /\ Live[i] = Scale) => Shadow'[i] = 975
      ]_vars

C4_Witness ==
    /\ pc = "returned" /\ ema_arg = 1
    /\ Live = <<Scale, 0>> \o [i \in 1..(NumParams - 2) |-> 0]
    /\ Shadow[1] = 975 /\ Shadow[2] = 0 - 9025

\* C5: a call EMA.update(N) puts every shadow parameter between its old
\* value and the live parameter; it stays where it is when the two are
\* equal, and otherwise it ends strictly closer to the live parameter.
C5_ConvexStep ==
    [][pc = "call" =>
          \A i \in 1..NumParams :
              LET old == Shadow[i]
                  new == Shadow'[i]
                  live == Live[i]
              IN  /\ Min(old, live) <= new /\ new <= Max(old, live)
                  /\ old = live => new = old
                  /\ old # live => new # old /\ Abs(live - new) < Abs(live - old)
      ]_vars

C5_Witness ==
    /\ pc = "returned" /\ ema_arg = StepCount(1, 2)
    /\ Live[1] = Scale /\ Shadow[1] > 0 /\ Shadow[1] < Scale
    /\ Live[2] = 0 - Scale /\ Shadow[2] = 0 - Scale

\* C6: whenever an index has been drawn, it lies in 0..N-2 for the N of the
\* running epoch, the boundary sequence has N elements, t and t+1 both index
\* into it, and t_0 = boundaries[t] < t_1 = boundaries[t+1]; the loss is
\* only ever computed with such a pair.
C6_IndexInRange ==
    /\ pc = "loss" => t # Unset
    /\ t # Unset =>
          /\ pc = "loss"
          /\ N = StepCount(epoch, n_epochs)
          /\ Len(boundaries) = N
          /\ 0 <= t /\ t <= N - 2 /\ t + 1 <= N - 1
          /\ t_0 = boundaries[t + 1]
          /\ t_1 = boundaries[t + 2]
          /\ t_0 < t_1

C6_Witness ==
    /\ pc = "loss" /\ epoch = 2 /\ batch = 2
    /\ t = N - 2
    /\ t_1 = boundaries[N]
    /\ t_0 < t_1

\* C7: the calls of one batch step come in the order loss, backward,
\* optimizer step, scheduler step, EMA update, each once per batch; the loss
\* is given the EMA model; and the EMA update is called with the N of the
\* running epoch, after that batch's optimizer step, and blends the shadow
\* parameters with the live parameters the optimizer has just left.
C7_State ==
    /\ ema_updates <= sched_steps /\ sched_steps <= optim_steps
    /\ optim_steps <= backward_calls /\ backward_calls <= loss_calls
    /\ loss_calls <= ema_updates + 1
    /\ pc \in {"setup", "epoch_start", "batch_start", "loss", "artifact", "done"}
          \/ AtEpochEnd
          => loss_calls = ema_updates
    /\ pc = "backward" => loss_calls = ema_updates + 1 /\ backward_calls = ema_updates
    /\ pc = "optim" => backward_calls = ema_updates + 1 /\ optim_steps = ema_updates
    /\ pc = "sched" => optim_steps = ema_updates + 1 /\ sched_steps = ema_updates
    /\ pc = "ema" => sched_steps = ema_updates + 1
    /\ pc = "batch_start" => ema_updates = (epoch - 1) * n_batches + batch
    /\ InBatch /\ pc # "batch_start" =>
          ema_updates = (epoch - 1) * n_batches + batch - 1
    /\ loss_calls > 0 => teacher = ema_params /\ teacher # model_params

C7_BatchOrder ==
    /\ []C7_State
    /\ [][ema_updates' # ema_updates =>
             /\ ema_updates' = ema_updates + 1
             /\ optim_steps = ema_updates + 1
             /\ sched_steps = ema_updates + 1
             /\ ema_arg' = N
             /\ N = StepCount(epoch, n_epochs)
             /\ Live' = Live
             /\ \A i \in 1..NumParams :
                    Shadow'[i] = Blend(Mu(N), Shadow[i], Live[i])
         ]_vars

C7_Witness ==
    /\ pc = "batch_start" /\ epoch = 2 /\ batch = 2
    /\ ema_updates = 2 * n_batches
    /\ ema_arg = StepCount(2, n_epochs) /\ ema_arg # ema_updates
    /\ Shadow # Live

\* C8: in every executed epoch all batch steps run with the model in
\* training mode and before any grid of that epoch is written; then the
\* model is switched to evaluation mode, the 5-step grid is written, then
\* the 2-step grid, then the weight file, each once, before the next epoch
\* starts; the value of sample_every_n_epoch plays no part.
C8_EpochEnd ==
    /\ InBatch =>
          /\ training
          /\ sample5 = Iota(epoch - 1) /\ sample2 = Iota(epoch - 1)
          /\ saves = epoch - 1
    /\ pc = "eval" =>
          /\ training
          /\ batch = n_batches /\ ema_updates = epoch * n_batches
          /\ sample5 = Iota(epoch - 1) /\ sample2 = Iota(epoch - 1)
          /\ saves = epoch - 1
    /\ pc = "sample5" =>
          /\ ~training
          /\ batch = n_batches /\ ema_updates = epoch * n_batches
          /\ sample5 = Iota(epoch - 1) /\ sample2 = Iota(epoch - 1)
          /\ saves = epoch - 1
    /\ pc = "sample2" =>
          /\ ~training
          /\ sample5 = Iota(epoch) /\ sample2 = Iota(epoch - 1)
          /\ saves = epoch - 1
    /\ pc = "save" =>
          /\ ~training
          /\ sample5 = Iota(epoch) /\ sample2 = Iota(epoch)
          /\ saves = epoch - 1
    /\ pc \in {"artifact", "epoch_start", "done"} =>
          /\ sample5 = Iota(epoch) /\ sample2 = Iota(epoch)
          /\ saves = epoch
          /\ ema_updates = epoch * n_batches
    /\ pc = "artifact" => ~training /\ wandb /\ artifacts = Iota(epoch - 1)

C8_Witness ==
    /\ pc = "batch_start" /\ epoch = 2 /\ batch = 0
    /\ sample_every_n_epoch = 2
    /\ sample5 = <<1>> /\ sample2 = <<1>> /\ saves = 1
    /\ training

C9_State ==
    /\ saves = 0 <=> weight_file = <<>>
    /\ InBatch \/ AtEpochEnd => saves = epoch - 1
    /\ pc \in {"artifact", "epoch_start", "done"} =>
          /\ saves = epoch
          /\ saves > 0 => weight_file = Live

C10_SchedulerSteps ==
    /\ total_steps = 0 => sched_steps = 0
    /\ total_steps > 0 =>
          /\ total_steps = n_batches * n_epochs
          /\ n_batches > 0
          /\ sched_steps <= n_batches * (n_epochs - 1)
          /\ sched_steps < total_steps
    /\ sched_steps <= loss_calls /\ loss_calls <= sched_steps + 1
    /\ pc = "done" /\ total_steps > 0 => sched_steps = n_batches * (n_epochs - 1)

C10_Witness ==
    /\ pc = "done" /\ n_epochs = 3 /\ n_batches = 2
    /\ total_steps = 6 /\ sched_steps = 4

====
